---- MODULE Spec2Model ----
(***************************************************************************)
(* Model of the @yuutrace/ui read path:                                    *)
(*   - utils/parse.ts: decoding of yuu.* span events into typed deltas     *)
(*   - components/CostSummary.tsx, UsageSummary (LlmCard.tsx),             *)
(*     ConversationFlow.tsx, SpanTimeline.tsx: the read-time rollups       *)
(*   - hooks/useTraceData.ts: the paginated conversation listing client    *)
(* Amounts and token counts are integers (a fixed-point unit); IEEE        *)
(* rounding of doubles is outside the model.                               *)
(***************************************************************************)
EXTENDS Integers, Sequences, FiniteSets, TLC

VARIABLES
    spans,                \* TracePage: selectedConversation.spans being rendered
    rendered,             \* TRUE once TracePage has rendered the conversation
    parsed,               \* TracePage: parseConversation(spans)
    costView,             \* what CostSummary computed from parsed.costs
    usageView,            \* what UsageSummary computed from parsed.usages
    flow,                 \* the cards ConversationFlow rendered
    timeline,             \* the rows SpanTimeline rendered
    calls,                \* the aggregations in progress, each with its locals
    db,                   \* store: the span relation and the event relation
    ingested,             \* ingestion: the requests served and the latest batch
    stored,               \* store: number of stored conversations
    inserted,             \* store: conversations ingested since the page opened
    conversations,        \* useTraceData: conversations state
    selectedConversation, \* useTraceData: selectedConversation state
    loading,              \* useTraceData: loading state
    error,                \* useTraceData: error state
    totalRef,             \* useTraceData: totalRef.current
    loadedRef,            \* useTraceData: loadedRef.current
    loadingMore,          \* useTraceData: loadingMore.current
    mounted,              \* the mount effect has run
    requests,             \* fetches in flight, in the order they were issued
    lastSelect            \* history: the id of the latest selectConversation call

aggVars == <<spans, rendered, parsed, costView, usageView, flow, timeline, calls>>
storeVars == <<db, ingested>>
hookVars == <<stored, inserted, conversations, selectedConversation, loading, error,
              totalRef, loadedRef, loadingMore, mounted, requests, lastSelect>>
vars == <<spans, rendered, parsed, costView, usageView, flow, timeline, calls,
          db, ingested,
          stored, inserted, conversations, selectedConversation, loading, error,
          totalRef, loadedRef, loadingMore, mounted, requests, lastSelect>>

----------------------------------------------------------------------------
(* Bounds of the model.                                                    *)

MaxSpans == 3      \* spans in the rendered conversation
MaxEvents == 2     \* events in the rendered conversation, over all its spans
MaxNumeral == 9    \* largest decimal literal a string attribute may spell
MaxPages == 2      \* the store starts with up to MaxPages full pages, plus one
MaxInserts == 2    \* conversations ingested while the page is open
MaxInFlight == 2   \* fetches in flight at once

----------------------------------------------------------------------------
(* JavaScript values, as they arrive in a JSON attribute map.              *)

Undefined == [t |-> "undefined", n |-> 0, s |-> ""]
Null == [t |-> "null", n |-> 0, s |-> ""]
JNum(i) == [t |-> "number", n |-> i, s |-> ""]
NaN == [t |-> "number", n |-> 0, s |-> "NaN"]
JStr(x) == [t |-> "string", n |-> 0, s |-> x]

IsNaN(x) == x.t = "number" /\ x.s = "NaN"

\* x == null
IsNullish(x) == x.t \in {"undefined", "null"}

\* a ?? that never falls back to its default
CoalesceNoDefault(x, d) == x

\* x ?? d
Coalesce(x, d) == IF IsNullish(x) THEN d ELSE x

\* Number(string): the empty string is 0, a decimal literal is its value,
\* anything else is NaN.
StringToNumber(str) ==
    IF str = "" THEN JNum(0)
    ELSE IF \E i \in 0..MaxNumeral : ToString(i) = str
         THEN JNum(CHOOSE i \in 0..MaxNumeral : ToString(i) = str)
         ELSE NaN

\* Number(x)
JsNumber(x) ==
    CASE x.t = "number" -> x
      [] x.t = "string" -> StringToNumber(x.s)
      [] x.t = "null" -> JNum(0)
      [] OTHER -> NaN

\* String(x)
JsString(x) ==
    CASE x.t = "string" -> x
      [] x.t = "number" -> IF IsNaN(x) THEN JStr("NaN") ELSE JStr(ToString(x.n))
      [] x.t = "null" -> JStr("null")
      [] OTHER -> JStr("undefined")

\* a + b on numbers
JsAdd(a, b) == IF IsNaN(a) \/ IsNaN(b) THEN NaN ELSE JNum(a.n + b.n)

\* the truthiness of x, as in `x && ...`
Truthy(x) ==
    CASE x.t = "number" -> ~IsNaN(x) /\ x.n # 0
      [] x.t = "string" -> x.s # ""
      [] OTHER -> FALSE

----------------------------------------------------------------------------
(* Attribute maps and events.                                              *)

AttrKeys ==
    {"yuu.cost.amount", "yuu.cost.category", "yuu.cost.currency",
     "yuu.cost.source", "yuu.cost.pricing_id",
     "yuu.llm.provider", "yuu.llm.model", "yuu.llm.request_id",
     "yuu.tool.name", "yuu.tool.call_id",
     "yuu.llm.usage.input_tokens", "yuu.llm.usage.output_tokens",
     "yuu.llm.usage.cache_read_tokens", "yuu.llm.usage.cache_write_tokens",
     "yuu.llm.usage.total_tokens",
     "yuu.tool.usage.unit", "yuu.tool.usage.quantity"}

\* a[key]: undefined for a key the map does not hold
Attr(a, key) == IF key \in DOMAIN a THEN a[key] ELSE Undefined

SpanEvent(name, attributes) == [name |-> name, attributes |-> attributes]

----------------------------------------------------------------------------
(* utils/parse.ts: single-event extractors.  A null result is NoEvent.     *)

NoEvent == [kind |-> "null"]

parseCostEvent(ev) ==
    LET a == ev.attributes
        amount == Attr(a, "yuu.cost.amount")
    IN IF IsNullish(amount) THEN NoEvent
       ELSE [kind |-> "cost",
             category |-> Coalesce(Attr(a, "yuu.cost.category"), JStr("llm")),
             currency |-> Coalesce(Attr(a, "yuu.cost.currency"), JStr("USD")),
             amount |-> JsNumber(amount),
             source |-> Attr(a, "yuu.cost.source"),
             pricingId |-> Attr(a, "yuu.cost.pricing_id"),
             llmProvider |-> Attr(a, "yuu.llm.provider"),
             llmModel |-> Attr(a, "yuu.llm.model"),
             llmRequestId |-> Attr(a, "yuu.llm.request_id"),
             toolName |-> Attr(a, "yuu.tool.name"),
             toolCallId |-> Attr(a, "yuu.tool.call_id")]

parseLlmUsageEvent(ev) ==
    LET a == ev.attributes
        provider == Attr(a, "yuu.llm.provider")
        total == Attr(a, "yuu.llm.usage.total_tokens")
    IN IF IsNullish(provider) THEN NoEvent
       ELSE [kind |-> "usage",
             provider |-> JsString(provider),
             model |-> JsString(Coalesce(Attr(a, "yuu.llm.model"), JStr(""))),
             requestId |-> Attr(a, "yuu.llm.request_id"),
             inputTokens |->
                 JsNumber(Coalesce(Attr(a, "yuu.llm.usage.input_tokens"), JNum(0))),
             outputTokens |->
                 JsNumber(Coalesce(Attr(a, "yuu.llm.usage.output_tokens"), JNum(0))),
             cacheReadTokens |->
                 JsNumber(Coalesce(Attr(a, "yuu.llm.usage.cache_read_tokens"), JNum(0))),
             cacheWriteTokens |->
                 JsNumber(Coalesce(Attr(a, "yuu.llm.usage.cache_write_tokens"), JNum(0))),
             totalTokens |-> IF ~IsNullish(total) THEN JsNumber(total) ELSE Undefined]

parseToolUsageEvent(ev) ==
    LET a == ev.attributes
        name == Attr(a, "yuu.tool.name")
    IN IF IsNullish(name) THEN NoEvent
       ELSE [kind |-> "toolUsage",
             name |-> JsString(name),
             callId |-> Attr(a, "yuu.tool.call_id"),
             unit |-> JsString(Coalesce(Attr(a, "yuu.tool.usage.unit"), JStr(""))),
             quantity |->
                 JsNumber(Coalesce(Attr(a, "yuu.tool.usage.quantity"), JNum(0)))]

----------------------------------------------------------------------------
(* Array and Map helpers.                                                  *)

\* a JS Map is the sequence of its entries in insertion order
MapHas(m, key) == \E i \in 1..Len(m) : m[i].key = key

\* m.get(key)
MapGet(m, key) == m[CHOOSE i \in 1..Len(m) : m[i].key = key].value

\* m.set(key, value): an existing key keeps its place
MapSet(m, key, value) ==
    IF MapHas(m, key)
    THEN [i \in 1..Len(m) |-> IF m[i].key = key
                              THEN [key |-> key, value |-> value] ELSE m[i]]
    ELSE Append(m, [key |-> key, value |-> value])

\* str.startsWith(prefix)
StartsWith(str, prefix) ==
    Len(str) >= Len(prefix) /\ SubSeq(str, 1, Len(prefix)) = prefix

----------------------------------------------------------------------------
(* utils/parse.ts: span-level extractors and parseConversation.            *)

NotNull(e) == e.kind # "null"

\* span.events.filter(name).map(parse).filter(not null)
extractCostEvents(span) ==
    LET named == SelectSeq(span.events, LAMBDA e : e.name = "yuu.cost")
    IN SelectSeq([i \in 1..Len(named) |-> parseCostEvent(named[i])], NotNull)

\* an extractor that decodes every event that has a provider, whatever its name
extractLlmUsageEventsAnyName(span) ==
    LET named == span.events
    IN SelectSeq([i \in 1..Len(named) |-> parseLlmUsageEvent(named[i])], NotNull)

extractLlmUsageEvents(span) ==
    LET named == SelectSeq(span.events, LAMBDA e : e.name = "yuu.llm.usage")
    IN SelectSeq([i \in 1..Len(named) |-> parseLlmUsageEvent(named[i])], NotNull)

extractToolUsageEvents(span) ==
    LET named == SelectSeq(span.events, LAMBDA e : e.name = "yuu.tool.usage")
    IN SelectSeq([i \in 1..Len(named) |-> parseToolUsageEvent(named[i])], NotNull)

\* the for loop of parseConversation over spans[from..], pushing onto acc
RECURSIVE parseLoop(_, _, _)
parseLoop(ss, from, acc) ==
    IF from > Len(ss) THEN acc
    ELSE parseLoop(ss, from + 1,
                   [costs |-> acc.costs \o extractCostEvents(ss[from]),
                    usages |-> acc.usages \o extractLlmUsageEvents(ss[from]),
                    toolUsages |-> acc.toolUsages \o extractToolUsageEvents(ss[from])])

\* a parse that skips the spans whose parent is not among the spans
parseConversationDropOrphans(ss) ==
    parseLoop(SelectSeq(ss, LAMBDA sp :
                  IsNullish(sp.parent_span_id)
                  \/ \E k \in 1..Len(ss) : JStr(ss[k].span_id) = sp.parent_span_id),
              1, [costs |-> <<>>, usages |-> <<>>, toolUsages |-> <<>>])

parseConversation(ss) ==
    parseLoop(ss, 1, [costs |-> <<>>, usages |-> <<>>, toolUsages |-> <<>>])

----------------------------------------------------------------------------
(* components/CostSummary.tsx                                              *)

\* a reduce that keeps the last amount instead of accumulating
SumAmountsLastOnly(costs, s) ==
    IF costs = <<>> THEN s ELSE costs[Len(costs)].amount

\* costs.reduce((s, c) => s + c.amount, 0)
RECURSIVE SumAmounts(_, _)
SumAmounts(costs, s) ==
    IF costs = <<>> THEN s
    ELSE SumAmounts(Tail(costs), JsAdd(s, Head(costs).amount))

\* a grouping that keeps the categories 'llm' and 'tool' only
RECURSIVE GroupByKnownCategory(_, _)
GroupByKnownCategory(costs, byCategory) ==
    IF costs = <<>> THEN byCategory
    ELSE LET c == Head(costs)
             old == IF MapHas(byCategory, c.category)
                    THEN MapGet(byCategory, c.category) ELSE JNum(0)
         IN GroupByKnownCategory(Tail(costs),
                IF c.category \in {JStr("llm"), JStr("tool")}
                THEN MapSet(byCategory, c.category, JsAdd(old, c.amount))
                ELSE byCategory)

\* for (const c of costs) byCategory.set(c.category, (get ?? 0) + c.amount)
RECURSIVE GroupByCategory(_, _)
GroupByCategory(costs, byCategory) ==
    IF costs = <<>> THEN byCategory
    ELSE LET c == Head(costs)
             old == IF MapHas(byCategory, c.category)
                    THEN MapGet(byCategory, c.category) ELSE JNum(0)
         IN GroupByCategory(Tail(costs),
                            MapSet(byCategory, c.category, JsAdd(old, c.amount)))

\* a grouping by model that takes the costs of every category
RECURSIVE GroupByModelAnyCategory(_, _)
GroupByModelAnyCategory(costs, byModel) ==
    IF costs = <<>> THEN byModel
    ELSE LET c == Head(costs)
             old == IF MapHas(byModel, c.llmModel)
                    THEN MapGet(byModel, c.llmModel) ELSE JNum(0)
         IN GroupByModelAnyCategory(Tail(costs),
                IF Truthy(c.llmModel)
                THEN MapSet(byModel, c.llmModel, JsAdd(old, c.amount))
                ELSE byModel)

\* for (const c of costs) if (c.category === "llm" && c.llmModel) byModel.set(...)
RECURSIVE GroupByModel(_, _)
GroupByModel(costs, byModel) ==
    IF costs = <<>> THEN byModel
    ELSE LET c == Head(costs)
             old == IF MapHas(byModel, c.llmModel)
                    THEN MapGet(byModel, c.llmModel) ELSE JNum(0)
         IN GroupByModel(Tail(costs),
                         IF c.category = JStr("llm") /\ Truthy(c.llmModel)
                         THEN MapSet(byModel, c.llmModel, JsAdd(old, c.amount))
                         ELSE byModel)

\* the label of a category row
CategoryLabel(cat) == IF cat = JStr("llm") THEN "LLM" ELSE "Tool"

NoCostData ==
    [empty |-> TRUE, total |-> Undefined, byCategory |-> <<>>,
     categoryRows |-> <<>>, byModel |-> <<>>]

CostSummary(costs) ==
    IF Len(costs) = 0 THEN NoCostData
    ELSE LET byCategory == GroupByCategory(costs, <<>>)
         IN [empty |-> FALSE,
             total |-> SumAmounts(costs, JNum(0)),
             byCategory |-> byCategory,
             categoryRows |->
                 [i \in 1..Len(byCategory) |->
                     [label |-> CategoryLabel(byCategory[i].key),
                      amount |-> byCategory[i].value]],
             byModel |-> GroupByModel(costs, <<>>)]

----------------------------------------------------------------------------
(* components/UsageSummary (in LlmCard.tsx)                                *)

\* `${u.provider}/${u.model}`
UsageKey(u) == u.provider.s \o "/" \o u.model.s

\* a grouping in which a later event of a key replaces the group of that key
RECURSIVE GroupUsagesOverwrite(_, _)
GroupUsagesOverwrite(usages, byModel) ==
    IF usages = <<>> THEN byModel
    ELSE LET u == Head(usages)
         IN GroupUsagesOverwrite(Tail(usages),
                MapSet(byModel, UsageKey(u),
                    [model |-> u.model,
                     provider |-> u.provider,
                     inputTokens |-> u.inputTokens,
                     outputTokens |-> u.outputTokens,
                     cacheReadTokens |-> u.cacheReadTokens,
                     cacheWriteTokens |-> u.cacheWriteTokens,
                     requests |-> 1]))

\* for (const u of usages) { ... byModel ... }
RECURSIVE GroupUsages(_, _)
GroupUsages(usages, byModel) ==
    IF usages = <<>> THEN byModel
    ELSE LET u == Head(usages)
             key == UsageKey(u)
         IN GroupUsages(Tail(usages),
             IF MapHas(byModel, key)
             THEN LET existing == MapGet(byModel, key)
                  IN MapSet(byModel, key,
                       [existing EXCEPT
                          !.inputTokens = JsAdd(@, u.inputTokens),
                          !.outputTokens = JsAdd(@, u.outputTokens),
                          !.cacheReadTokens = JsAdd(@, u.cacheReadTokens),
                          !.cacheWriteTokens = JsAdd(@, u.cacheWriteTokens),
                          !.requests = @ + 1])
             ELSE MapSet(byModel, key,
                    [model |-> u.model,
                     provider |-> u.provider,
                     inputTokens |-> u.inputTokens,
                     outputTokens |-> u.outputTokens,
                     cacheReadTokens |-> u.cacheReadTokens,
                     cacheWriteTokens |-> u.cacheWriteTokens,
                     requests |-> 1]))

\* usages.reduce((s, u) => s + u.inputTokens, 0)
RECURSIVE SumInput(_, _)
SumInput(usages, s) ==
    IF usages = <<>> THEN s
    ELSE SumInput(Tail(usages), JsAdd(s, Head(usages).inputTokens))

\* usages.reduce((s, u) => s + u.outputTokens, 0)
RECURSIVE SumOutput(_, _)
SumOutput(usages, s) ==
    IF usages = <<>> THEN s
    ELSE SumOutput(Tail(usages), JsAdd(s, Head(usages).outputTokens))

NoUsageData ==
    [empty |-> TRUE, totalInput |-> Undefined, totalOutput |-> Undefined,
     requests |-> 0, groups |-> <<>>]

UsageSummary(usages) ==
    IF Len(usages) = 0 THEN NoUsageData
    ELSE LET byModel == GroupUsages(usages, <<>>)
         IN [empty |-> FALSE,
             totalInput |-> SumInput(usages, JNum(0)),
             totalOutput |-> SumOutput(usages, JNum(0)),
             requests |-> Len(usages),
             groups |-> [i \in 1..Len(byModel) |-> byModel[i].value]]

----------------------------------------------------------------------------
(* components/ConversationFlow.tsx and components/SpanTimeline.tsx         *)

\* an optional prop that is not passed
Absent == [kind |-> "undefined"]

\* a sort that puts a span before the spans that start at the same time
RECURSIVE SortByStartUnstable(_)
SortByStartUnstable(ss) ==
    IF ss = <<>> THEN <<>>
    ELSE LET sortedRest == SortByStartUnstable(SubSeq(ss, 1, Len(ss) - 1))
             last == ss[Len(ss)]
             keep == Cardinality({i \in 1..Len(sortedRest) :
                        sortedRest[i].start_time_unix_nano
                            < last.start_time_unix_nano})
         IN SubSeq(sortedRest, 1, keep) \o <<last>>
                \o SubSeq(sortedRest, keep + 1, Len(sortedRest))

\* [...spans].sort((a, b) => a.start_time_unix_nano - b.start_time_unix_nano):
\* the sort is stable, so a span goes behind every span that starts no later
RECURSIVE SortByStart(_)
SortByStart(ss) ==
    IF ss = <<>> THEN <<>>
    ELSE LET sortedRest == SortByStart(SubSeq(ss, 1, Len(ss) - 1))
             last == ss[Len(ss)]
             keep == Cardinality({i \in 1..Len(sortedRest) :
                        sortedRest[i].start_time_unix_nano
                            <= last.start_time_unix_nano})
         IN SubSeq(sortedRest, 1, keep) \o <<last>>
                \o SubSeq(sortedRest, keep + 1, Len(sortedRest))

\* arr[arr.length - 1]
Last(arr) == IF Len(arr) = 0 THEN Absent ELSE arr[Len(arr)]

\* arr[0]
First(arr) == IF Len(arr) = 0 THEN Absent ELSE arr[1]

\* costs.find((c) => c.category === cat)
FindCategory(costs, cat) == First(SelectSeq(costs, LAMBDA c : c.category = JStr(cat)))

isLlm(span) == span.name = "llm_gen" \/ StartsWith(span.name, "llm")

isTool(span) == span.name = "tools" \/ StartsWith(span.name, "tool:")

\* the card of one span
FlowCard(span) ==
    LET costs == extractCostEvents(span)
    IN IF isLlm(span)
       THEN [type |-> "LlmCard", key |-> span.span_id,
             usage |-> First(extractLlmUsageEvents(span)),
             cost |-> FindCategory(costs, "llm"),
             totalCost |-> Undefined]
       ELSE IF isTool(span)
       THEN [type |-> "ToolCard", key |-> span.span_id,
             usage |-> First(extractToolUsageEvents(span)),
             cost |-> FindCategory(costs, "tool"),
             totalCost |-> Undefined]
       ELSE [type |-> "GenericCard", key |-> span.span_id,
             usage |-> Absent, cost |-> Absent,
             totalCost |-> SumAmounts(costs, JNum(0))]

ConversationFlow(ss) ==
    LET sorted == SortByStart(ss)
    IN [i \in 1..Len(sorted) |-> FlowCard(sorted[i])]

\* one row of the timeline (the bar's left/width percentages are not modelled)
TimelineRow(span) ==
    [key |-> span.span_id, name |-> span.name,
     color |-> IF isLlm(span) THEN "#58a6ff"
               ELSE IF isTool(span) THEN "#3fb950" ELSE "#8b949e",
     durationNano |-> span.end_time_unix_nano - span.start_time_unix_nano]

SpanTimeline(ss) ==
    IF Len(ss) = 0
    THEN <<>>
    ELSE LET sorted == SortByStart(ss)
         IN [i \in 1..Len(sorted) |-> TimelineRow(sorted[i])]

----------------------------------------------------------------------------
(* The conversations the page is given: spans and events as types.ts       *)
(* declares them, with the attribute shapes a store can hold.              *)

CostLlm ==
    SpanEvent("yuu.cost",
        ("yuu.cost.amount" :> JNum(2)) @@ ("yuu.cost.category" :> JStr("llm"))
        @@ ("yuu.cost.currency" :> JStr("USD")) @@ ("yuu.llm.model" :> JStr("m1")))

\* a tool cost in another currency, its amount spelled as a string
CostTool ==
    SpanEvent("yuu.cost",
        ("yuu.cost.amount" :> JStr("3")) @@ ("yuu.cost.category" :> JStr("tool"))
        @@ ("yuu.cost.currency" :> JStr("EUR")) @@ ("yuu.tool.name" :> JStr("search"))
        @@ ("yuu.llm.provider" :> JStr("a")))

\* an amount that is no number; no category, no currency
CostMalformed == SpanEvent("yuu.cost", ("yuu.cost.amount" :> JStr("abc")))

CostNoAmount ==
    SpanEvent("yuu.cost",
        ("yuu.cost.amount" :> Null) @@ ("yuu.cost.category" :> JStr("llm"))
        @@ ("yuu.llm.model" :> JStr("m1")))

\* a category outside the CostCategory enum, as an OTLP producer may send it
CostOther ==
    SpanEvent("yuu.cost",
        ("yuu.cost.amount" :> JNum(1)) @@ ("yuu.cost.category" :> JStr("embedding"))
        @@ ("yuu.cost.currency" :> JStr("USD")))

\* an LLM cost of a second model
CostLlmM2 ==
    SpanEvent("yuu.cost",
        ("yuu.cost.amount" :> JNum(4)) @@ ("yuu.cost.category" :> JStr("llm"))
        @@ ("yuu.cost.currency" :> JStr("USD")) @@ ("yuu.llm.model" :> JStr("m2")))

\* an LLM cost whose model is the empty string
CostLlmNoModel ==
    SpanEvent("yuu.cost",
        ("yuu.cost.amount" :> JNum(8)) @@ ("yuu.cost.category" :> JStr("llm"))
        @@ ("yuu.cost.currency" :> JStr("USD")) @@ ("yuu.llm.model" :> JStr("")))

\* a tool cost that names a model
CostToolModel ==
    SpanEvent("yuu.cost",
        ("yuu.cost.amount" :> JNum(1)) @@ ("yuu.cost.category" :> JStr("tool"))
        @@ ("yuu.cost.currency" :> JStr("USD")) @@ ("yuu.tool.name" :> JStr("search"))
        @@ ("yuu.llm.model" :> JStr("m1")))

UsageA ==
    SpanEvent("yuu.llm.usage",
        ("yuu.llm.provider" :> JStr("a")) @@ ("yuu.llm.model" :> JStr("b/c"))
        @@ ("yuu.llm.usage.input_tokens" :> JNum(5))
        @@ ("yuu.llm.usage.output_tokens" :> JNum(1)))

UsageB ==
    SpanEvent("yuu.llm.usage",
        ("yuu.llm.provider" :> JStr("a/b")) @@ ("yuu.llm.model" :> JStr("c"))
        @@ ("yuu.llm.usage.input_tokens" :> JNum(7))
        @@ ("yuu.llm.usage.output_tokens" :> JNum(2)))

\* a provider and nothing else
UsageBare == SpanEvent("yuu.llm.usage", ("yuu.llm.provider" :> JStr("a")))

\* a token count that is no number
UsageMalformed ==
    SpanEvent("yuu.llm.usage",
        ("yuu.llm.provider" :> JStr("a")) @@ ("yuu.llm.model" :> JStr("b/c"))
        @@ ("yuu.llm.usage.input_tokens" :> JStr("many"))
        @@ ("yuu.llm.usage.output_tokens" :> JNum(1)))

UsageNoProvider ==
    SpanEvent("yuu.llm.usage",
        ("yuu.llm.model" :> JStr("m1")) @@ ("yuu.llm.usage.input_tokens" :> JNum(5)))

ToolUsage ==
    SpanEvent("yuu.tool.usage",
        ("yuu.tool.name" :> JStr("search")) @@ ("yuu.tool.usage.unit" :> JStr("calls"))
        @@ ("yuu.tool.usage.quantity" :> JNum(1)))

\* an event of another name that carries the attributes of all three kinds
OtherEvent ==
    SpanEvent("yuu.context",
        ("yuu.cost.amount" :> JNum(7)) @@ ("yuu.llm.provider" :> JStr("a"))
        @@ ("yuu.llm.model" :> JStr("c")) @@ ("yuu.tool.name" :> JStr("search"))
        @@ ("yuu.llm.usage.input_tokens" :> JNum(5)))

EventUniverse ==
    {CostLlm, CostTool, CostMalformed, CostNoAmount, CostOther, CostLlmM2,
     CostLlmNoModel, CostToolModel, UsageA, UsageB, UsageBare,
     UsageMalformed, UsageNoProvider, ToolUsage, OtherEvent}

Span(id, parent, name, start, end, events) ==
    [span_id |-> id, parent_span_id |-> parent, name |-> name,
     start_time_unix_nano |-> start, end_time_unix_nano |-> end, events |-> events]

\* the spans a conversation may hold, in the order the store returns them:
\* s1 names a parent that no span has; s3 is an orphan whenever s2 is missing
SpanHeaders ==
    <<Span("s1", JStr("s9"), "tool:calc", 2, 3, <<>>),
      Span("s2", Null, "conversation", 1, 9, <<>>),
      Span("s3", JStr("s2"), "llm_gen", 2, 5, <<>>)>>

\* the k-th smallest member of a set of indices
Nth(S, k) == CHOOSE x \in S : Cardinality({y \in S : y < x}) = k - 1

HeaderChoices == {S \in SUBSET (1..Len(SpanHeaders)) : Cardinality(S) <= MaxSpans}

RECURSIVE SumTo(_, _)
SumTo(lens, k) == IF k = 0 THEN 0 ELSE lens[k] + SumTo(lens, k - 1)

\* how many events each of n spans holds
EventCounts(n) ==
    {lens \in [1..n -> 0..MaxEvents] : SumTo(lens, n) <= MaxEvents}

BuildSpans(S, lens, flat) ==
    [i \in 1..Cardinality(S) |->
        [SpanHeaders[Nth(S, i)] EXCEPT
            !.events = SubSeq(flat, SumTo(lens, i - 1) + 1, SumTo(lens, i))]]

\* ss is a conversation within the bounds
IsSpanList(ss) ==
    \E S \in HeaderChoices :
        \E lens \in EventCounts(Cardinality(S)) :
            \E flat \in [1..SumTo(lens, Cardinality(S)) -> EventUniverse] :
                ss = BuildSpans(S, lens, flat)

----------------------------------------------------------------------------
(* pages/TracePage.tsx: one render of the selected conversation.           *)

NotRendered == [kind |-> "none"]

\* `null` for the error state
NoError == "null"

\* the store is empty and nothing was ingested
EmptyDb == [spans |-> <<>>, events |-> <<>>]

NoBatch == <<>>

InitStore ==
    /\ db = EmptyDb
    /\ ingested = [count |-> 0, last |-> NoBatch]

InitHook ==
    /\ InitStore
    /\ inserted = 0
    /\ conversations = <<>>
    /\ selectedConversation = 0
    /\ loading = FALSE
    /\ error = NoError
    /\ totalRef = 0
    /\ loadedRef = 0
    /\ loadingMore = FALSE
    /\ mounted = FALSE
    /\ requests = <<>>
    /\ lastSelect = 0

Init ==
    /\ IsSpanList(spans)
    /\ rendered = FALSE
    /\ parsed = NotRendered
    /\ costView = NotRendered
    /\ usageView = NotRendered
    /\ flow = <<>>
    /\ timeline = <<>>
    /\ calls = <<>>
    /\ stored = 0
    /\ InitHook

Render ==
    /\ ~rendered
    /\ rendered' = TRUE
    /\ parsed' = parseConversation(spans)
    /\ costView' = CostSummary(parseConversation(spans).costs)
    /\ usageView' = UsageSummary(parseConversation(spans).usages)
    /\ flow' = ConversationFlow(spans)
    /\ timeline' = SpanTimeline(spans)
    /\ UNCHANGED <<spans, calls, storeVars, hookVars>>

Next == Render

Spec == Init /\ [][Next]_vars

----------------------------------------------------------------------------
(* Vocabulary of the properties of the aggregation.                        *)

\* every event of the conversation, span after span
RECURSIVE FlatEvents(_)
FlatEvents(ss) == IF ss = <<>> THEN <<>> ELSE Head(ss).events \o FlatEvents(Tail(ss))

\* the events of one name that carry the attribute their decoder requires
Carrying(events, name, key) ==
    SelectSeq(events, LAMBDA e : e.name = name /\ ~IsNullish(Attr(e.attributes, key)))

RawCosts(ss) == Carrying(FlatEvents(ss), "yuu.cost", "yuu.cost.amount")
RawUsages(ss) == Carrying(FlatEvents(ss), "yuu.llm.usage", "yuu.llm.provider")
RawToolUsages(ss) == Carrying(FlatEvents(ss), "yuu.tool.usage", "yuu.tool.name")

\* the sum of attribute `key` over a list of events, read as numbers
RECURSIVE AttrSum(_, _)
AttrSum(events, key) ==
    IF events = <<>> THEN JNum(0)
    ELSE JsAdd(JsNumber(Coalesce(Attr(Head(events).attributes, key), JNum(0))),
               AttrSum(Tail(events), key))

Range(seq) == {seq[i] : i \in 1..Len(seq)}

\* how many cards or rows of a view carry the key
KeyCount(view, key) == Cardinality({i \in 1..Len(view) : view[i].key = key})

\* how many usage events name the pair
PairCount(usages, provider, model) ==
    Cardinality({i \in 1..Len(usages) :
                    usages[i].provider = provider /\ usages[i].model = model})

\* C1: once the page has rendered, the total CostSummary shows is the sum of
\* the yuu.cost.amount values of every yuu.cost event with a non-null amount,
\* over all spans and over all such events of each span; with no such event
\* the panel shows no total.
C1_TotalIsSumOfAmounts ==
    rendered =>
        IF RawCosts(spans) = <<>> THEN costView.empty
        ELSE /\ ~costView.empty
             /\ costView.total = AttrSum(RawCosts(spans), "yuu.cost.amount")

\* amounts 2 and 3 on two spans give 5
C1_Witness ==
    /\ rendered
    /\ Len(spans) = 2
    /\ spans[1].events = <<CostLlm>>
    /\ spans[2].events = <<CostTool>>
    /\ costView.total = JNum(5)

\* s reordered by the permutation p of its indices
PermuteSeq(s, p) == [i \in 1..Len(s) |-> s[p[i]]]

\* the span lists that hold the events of each span of ss in some other order
RECURSIVE EventReorderings(_)
EventReorderings(ss) ==
    IF ss = <<>> THEN {<<>>}
    ELSE {<<[Head(ss) EXCEPT !.events = PermuteSeq(Head(ss).events, p)]>> \o rest :
            p \in Permutations(1..Len(Head(ss).events)),
            rest \in EventReorderings(Tail(ss))}

\* every permutation of the spans, with every permutation of each span's events
Reorderings(ss) ==
    UNION {EventReorderings(PermuteSeq(ss, p)) : p \in Permutations(1..Len(ss))}

\* the aggregation results, without the order of the rows
Rollup(cost, usage) ==
    [total |-> cost.total,
     byCategory |-> Range(cost.byCategory),
     byModel |-> Range(cost.byModel),
     usage |-> Range(usage.groups)]

RollupOf(ss) ==
    Rollup(CostSummary(parseConversation(ss).costs),
           UsageSummary(parseConversation(ss).usages))

\* C2: the total cost, the per-category and per-model costs and the
\* per-(provider, model) usage sums and request counts that the page rendered
\* are those of every reordering of the spans and of the events in each span.
C2_OrderIndependent ==
    rendered => \A r \in Reorderings(spans) : RollupOf(r) = Rollup(costView, usageView)

\* the events of a list whose attribute `key` reads as a number
WellFormed(events, key) ==
    SelectSeq(events,
              LAMBDA e : ~IsNaN(JsNumber(Coalesce(Attr(e.attributes, key), JNum(0)))))

\* C3: a yuu.cost event with a non-numeric amount, or a yuu.llm.usage event
\* with a non-numeric token count, is left out of the sums, and the totals shown
\* are the sums over the remaining well-formed events.
C3_MalformedExcluded ==
    rendered =>
        /\ ~costView.empty =>
              costView.total =
                  AttrSum(WellFormed(RawCosts(spans), "yuu.cost.amount"),
                          "yuu.cost.amount")
        /\ ~usageView.empty =>
              usageView.totalInput =
                  AttrSum(WellFormed(RawUsages(spans), "yuu.llm.usage.input_tokens"),
                          "yuu.llm.usage.input_tokens")

\* the currencies of the decoded cost events
Currencies(costs) == {costs[i].currency : i \in 1..Len(costs)}

\* C4: when the cost events carry more than one currency, the rendered cost
\* panel carries a currency-mismatch flag and its total is not the sum over
\* the amounts of all currencies.
C4_CurrencyMismatchFlagged ==
    (rendered /\ Cardinality(Currencies(parsed.costs)) > 1) =>
        /\ "currencyMismatch" \in DOMAIN costView
        /\ costView.total # AttrSum(RawCosts(spans), "yuu.cost.amount")

\* a token attribute and the field it decodes to
TokenFields ==
    {<<"yuu.llm.usage.input_tokens", "inputTokens">>,
     <<"yuu.llm.usage.output_tokens", "outputTokens">>,
     <<"yuu.llm.usage.cache_read_tokens", "cacheReadTokens">>,
     <<"yuu.llm.usage.cache_write_tokens", "cacheWriteTokens">>}

\* C5: parseConversation returns its three lists for every attribute map; the
\* k-th decoded cost is the k-th yuu.cost event with an amount, with category
\* "llm" and currency "USD" where the event has none; the k-th decoded usage
\* is the k-th yuu.llm.usage event with a provider, with model "" and token
\* count 0 where the event has none.
C5_DecodingDefaults ==
    rendered =>
        /\ DOMAIN parsed = {"costs", "usages", "toolUsages"}
        /\ Len(parsed.costs) = Len(RawCosts(spans))
        /\ \A k \in 1..Len(parsed.costs) :
              LET a == RawCosts(spans)[k].attributes
              IN /\ IsNullish(Attr(a, "yuu.cost.category"))
                      => parsed.costs[k].category = JStr("llm")
                 /\ IsNullish(Attr(a, "yuu.cost.currency"))
                      => parsed.costs[k].currency = JStr("USD")
        /\ Len(parsed.usages) = Len(RawUsages(spans))
        /\ \A k \in 1..Len(parsed.usages) :
              LET a == RawUsages(spans)[k].attributes
              IN /\ IsNullish(Attr(a, "yuu.llm.model"))
                      => parsed.usages[k].model = JStr("")
                 /\ \A f \in TokenFields :
                      IsNullish(Attr(a, f[1])) => parsed.usages[k][f[2]] = JNum(0)

\* a cost event with an amount only, and a usage event with a provider only
C5_Witness ==
    /\ rendered
    /\ Len(spans) = 1
    /\ spans[1].events = <<CostMalformed, UsageBare>>
    /\ parsed.costs[1].category = JStr("llm")
    /\ parsed.costs[1].currency = JStr("USD")
    /\ parsed.usages[1].model = JStr("")
    /\ parsed.usages[1].inputTokens = JNum(0)

\* the (provider, model) pairs of the decoded usage events
UsagePairs(usages) == {<<usages[i].provider, usages[i].model>> : i \in 1..Len(usages)}

\* C6: the usage panel has exactly one group per distinct (provider, model)
\* pair of the usage events, and the request count of a group is the number of
\* usage events with its pair.
C6_OneGroupPerPair ==
    rendered =>
        /\ Len(usageView.groups) = Cardinality(UsagePairs(parsed.usages))
        /\ {<<g.provider, g.model>> : g \in Range(usageView.groups)}
              = UsagePairs(parsed.usages)
        /\ \A g \in Range(usageView.groups) :
              g.requests =
                  PairCount(parsed.usages, g.provider, g.model)

\* span i names a parent that is no span of the conversation
IsOrphan(ss, i) ==
    /\ ~IsNullish(ss[i].parent_span_id)
    /\ \A k \in 1..Len(ss) : JStr(ss[k].span_id) # ss[i].parent_span_id

\* C9: orphans included, ConversationFlow renders exactly one card and
\* SpanTimeline exactly one row per span, and parseConversation decodes the
\* cost and usage events of every span, those of an orphan among them.
C9_OrphansRetained ==
    rendered =>
        /\ Len(flow) = Len(spans)
        /\ Len(timeline) = Len(spans)
        /\ \A i \in 1..Len(spans) :
              /\ KeyCount(flow, spans[i].span_id) = 1
              /\ KeyCount(timeline, spans[i].span_id) = 1
        /\ Len(parsed.costs) = Len(RawCosts(spans))
        /\ Len(parsed.usages) = Len(RawUsages(spans))
        /\ \A i \in 1..Len(spans) :
              IsOrphan(spans, i) =>
                 /\ \A e \in Range(RawCosts(<<spans[i]>>)) :
                       parseCostEvent(e) \in Range(parsed.costs)
                 /\ \A e \in Range(RawUsages(<<spans[i]>>)) :
                       parseLlmUsageEvent(e) \in Range(parsed.usages)

\* an orphan with a cost and a usage event, next to a root span without events
C9_Witness ==
    /\ rendered
    /\ Len(spans) = 2
    /\ IsOrphan(spans, 1)
    /\ ~IsOrphan(spans, 2)
    /\ spans[1].events = <<CostLlm, UsageA>>
    /\ spans[2].events = <<>>
    /\ Len(flow) = 2
    /\ Len(parsed.costs) = 1

KnownNames == {"yuu.cost", "yuu.llm.usage", "yuu.tool.usage"}

\* ss without the events of any other name
OnlyKnown(ss) ==
    [i \in 1..Len(ss) |->
        [ss[i] EXCEPT !.events = SelectSeq(@, LAMBDA e : e.name \in KnownNames)]]

\* C10: each list of parseConversation holds one decoded delta per event of
\* its own name that carries the required attribute and nothing else: events
\* of another name add nothing whatever they carry, and an event is counted
\* under the kind of its name only.
C10_OnlyKnownNames ==
    rendered =>
        /\ Len(parsed.costs) = Len(RawCosts(spans))
        /\ Len(parsed.usages) = Len(RawUsages(spans))
        /\ Len(parsed.toolUsages) = Len(RawToolUsages(spans))
        /\ parsed = parseConversation(OnlyKnown(spans))
        /\ \A c \in Range(parsed.costs) : c.kind = "cost"
        /\ \A u \in Range(parsed.usages) : u.kind = "usage"
        /\ \A u \in Range(parsed.toolUsages) : u.kind = "toolUsage"

\* an event of another name with the attributes of all kinds, and a yuu.cost
\* event that also carries a provider and a tool name
C10_Witness ==
    /\ rendered
    /\ Len(spans) = 1
    /\ spans[1].events = <<OtherEvent, CostTool>>
    /\ Len(parsed.costs) = 1
    /\ parsed.usages = <<>>
    /\ parsed.toolUsages = <<>>

CostCategories == {JStr("llm"), JStr("tool")}

\* C11: every decoded cost event has category 'llm' or 'tool', and the
\* per-category breakdown CostSummary renders has no row keyed by any other
\* category value.
C11_TwoCategories ==
    rendered =>
        /\ \A c \in Range(parsed.costs) : c.category \in CostCategories
        /\ \A row \in Range(costView.byCategory) : row.key \in CostCategories

\* the yuu.cost events of category 'llm' (the default when none is given)
\* with a non-empty string as yuu.llm.model
LlmModelCosts(ss) ==
    SelectSeq(RawCosts(ss),
              LAMBDA e :
                  /\ Coalesce(Attr(e.attributes, "yuu.cost.category"), JStr("llm"))
                         = JStr("llm")
                  /\ Attr(e.attributes, "yuu.llm.model").t = "string"
                  /\ Attr(e.attributes, "yuu.llm.model").s # "")

CostsOfModel(ss, model) ==
    SelectSeq(LlmModelCosts(ss), LAMBDA e : Attr(e.attributes, "yuu.llm.model") = model)

\* C23: the by-model breakdown has one row per model named by an 'llm' cost
\* event with a non-empty yuu.llm.model, its amount the sum of the amounts of
\* those events; tool costs and costs without a model are in no row.
C23_ByModelIsLlmCostsPerModel ==
    rendered =>
        /\ {row.key : row \in Range(costView.byModel)}
              = {Attr(e.attributes, "yuu.llm.model") : e \in Range(LlmModelCosts(spans))}
        /\ \A i, j \in 1..Len(costView.byModel) :
              costView.byModel[i].key = costView.byModel[j].key => i = j
        /\ \A row \in Range(costView.byModel) :
              row.value = AttrSum(CostsOfModel(spans, row.key), "yuu.cost.amount")

\* an LLM cost of m1 next to a tool cost that names m1: the row of m1 holds
\* the LLM cost only, the total both
C23_Witness ==
    /\ rendered
    /\ Len(spans) = 1
    /\ spans[1].events = <<CostLlm, CostToolModel>>
    /\ Len(costView.byModel) = 1
    /\ costView.byModel[1].key = JStr("m1")
    /\ costView.byModel[1].value = JNum(2)
    /\ costView.total = JNum(3)

\* the position of the card of span id among the cards
CardOf(cards, id) == CHOOSE k \in 1..Len(cards) : cards[k].key = id

\* C24: ConversationFlow renders one card per input span and no other card,
\* the cards in non-decreasing start_time_unix_nano order of their spans, and
\* the cards of spans that start at the same time in the input order of
\* those spans.
C24_FlowSortedStablePermutation ==
    rendered =>
        /\ Len(flow) = Len(spans)
        /\ \A i \in 1..Len(spans) : \E k \in 1..Len(flow) : flow[k].key = spans[i].span_id
        /\ \A i, j \in 1..Len(spans) :
              LET a == CardOf(flow, spans[i].span_id)
                  b == CardOf(flow, spans[j].span_id)
              IN /\ spans[i].start_time_unix_nano < spans[j].start_time_unix_nano
                        => a < b
                 /\ (/\ spans[i].start_time_unix_nano = spans[j].start_time_unix_nano
                     /\ i < j) => a < b

\* s1 and s3 start at 2 and s2, given between them, at 1: the cards are those
\* of s2, s1, s3
C24_Witness ==
    /\ rendered
    /\ Len(spans) = 3
    /\ spans[1].start_time_unix_nano = spans[3].start_time_unix_nano
    /\ spans[2].start_time_unix_nano < spans[1].start_time_unix_nano
    /\ flow[1].key = spans[2].span_id
    /\ flow[2].key = spans[1].span_id
    /\ flow[3].key = spans[3].span_id

\* the cost events of one span that decode to the category, in event order
CostsOfCategory(span, cat) ==
    SelectSeq(Carrying(span.events, "yuu.cost", "yuu.cost.amount"),
              LAMBDA e : Coalesce(Attr(e.attributes, "yuu.cost.category"), JStr("llm"))
                            = JStr(cat))

RECURSIVE RowSum(_)
RowSum(rows) ==
    IF rows = <<>> THEN JNum(0) ELSE JsAdd(Head(rows).amount, RowSum(Tail(rows)))

RECURSIVE GroupRequests(_)
GroupRequests(groups) ==
    IF groups = <<>> THEN 0 ELSE Head(groups).requests + GroupRequests(Tail(groups))

\* field `f` of the groups added up
RECURSIVE GroupTokens(_, _)
GroupTokens(groups, f) ==
    IF groups = <<>> THEN JNum(0)
    ELSE JsAdd(Head(groups)[f], GroupTokens(Tail(groups), f))

\* C27: when UsageSummary shows usage, the request counts of its groups add
\* up to the number of usage events, which is the Requests figure, and the
\* input and output tokens of its groups add up to the total input and the
\* total output (a NaN token count makes both NaN).
C27_GroupsAddUpToTotals ==
    (rendered /\ ~usageView.empty) =>
        /\ GroupRequests(usageView.groups) = Len(RawUsages(spans))
        /\ usageView.requests = Len(RawUsages(spans))
        /\ GroupTokens(usageView.groups, "inputTokens") = usageView.totalInput
        /\ GroupTokens(usageView.groups, "outputTokens") = usageView.totalOutput

\* two usage events whose keys collide (5 in, 1 out and 7 in, 2 out) make one
\* group of 2 requests with 12 in and 3 out, the totals
C27_Witness ==
    /\ rendered
    /\ Len(RawUsages(spans)) = 2
    /\ Len(usageView.groups) = 1
    /\ usageView.groups[1].requests = 2
    /\ usageView.groups[1].inputTokens = JNum(12)
    /\ usageView.totalInput = JNum(12)
    /\ usageView.totalOutput = JNum(3)

----------------------------------------------------------------------------
(* Two aggregations of one conversation.  The spans array is the one object *)
(* both are given; everything else is local to a call.  A call is one pass  *)
(* of TracePage: parseConversation span by span, then SpanTimeline,         *)
(* ConversationFlow, CostSummary and UsageSummary.                          *)

Calls == {1, 2}

\* the locals of a call that has just begun on the conversation ss
NewCall(ss) ==
    [pc |-> "parse", given |-> ss, i |-> 1,
     acc |-> [costs |-> <<>>, usages |-> <<>>, toolUsages |-> <<>>],
     parsed |-> NotRendered, timeline |-> <<>>, flow |-> <<>>,
     costView |-> NotRendered, usageView |-> NotRendered]

\* parseConversation: one pass of `for (const span of spans)`
parseSpan(c) ==
    /\ calls[c].pc = "parse"
    /\ calls[c].i <= Len(spans)
    /\ calls' = [calls EXCEPT
                    ![c].acc = parseLoop(<<spans[calls[c].i]>>, 1, @),
                    ![c].i = @ + 1]
    /\ UNCHANGED <<spans, rendered, parsed, costView, usageView, flow, timeline,
                   storeVars, hookVars>>

\* parseConversation: return { costs, usages, toolUsages }
parseReturn(c) ==
    /\ calls[c].pc = "parse"
    /\ calls[c].i > Len(spans)
    /\ calls' = [calls EXCEPT ![c].parsed = calls[c].acc, ![c].pc = "timeline"]
    /\ UNCHANGED <<spans, rendered, parsed, costView, usageView, flow, timeline,
                   storeVars, hookVars>>

\* <SpanTimeline spans={selectedConversation.spans} />
callSpanTimeline(c) ==
    /\ calls[c].pc = "timeline"
    /\ calls' = [calls EXCEPT ![c].timeline = SpanTimeline(spans), ![c].pc = "flow"]
    /\ UNCHANGED <<spans, rendered, parsed, costView, usageView, flow, timeline,
                   storeVars, hookVars>>

\* a ConversationFlow that sorts the array it is given: spans.sort(...)
callConversationFlowSortInPlace(c) ==
    /\ calls[c].pc = "flow"
    /\ spans' = SortByStart(spans)
    /\ calls' = [calls EXCEPT ![c].flow = ConversationFlow(spans), ![c].pc = "cost"]
    /\ UNCHANGED <<rendered, parsed, costView, usageView, flow, timeline, storeVars, hookVars>>

\* <ConversationFlow spans={selectedConversation.spans} />: it sorts a copy,
\* [...spans].sort(...)
callConversationFlow(c) ==
    /\ calls[c].pc = "flow"
    /\ calls' = [calls EXCEPT ![c].flow = ConversationFlow(spans), ![c].pc = "cost"]
    /\ UNCHANGED <<spans, rendered, parsed, costView, usageView, flow, timeline,
                   storeVars, hookVars>>

\* <CostSummary costs={parsed.costs} />
callCostSummary(c) ==
    /\ calls[c].pc = "cost"
    /\ calls' = [calls EXCEPT ![c].costView = CostSummary(calls[c].parsed.costs),
                              ![c].pc = "usage"]
    /\ UNCHANGED <<spans, rendered, parsed, costView, usageView, flow, timeline,
                   storeVars, hookVars>>

\* <UsageSummary usages={parsed.usages} />
callUsageSummary(c) ==
    /\ calls[c].pc = "usage"
    /\ calls' = [calls EXCEPT ![c].usageView = UsageSummary(calls[c].parsed.usages),
                              ![c].pc = "done"]
    /\ UNCHANGED <<spans, rendered, parsed, costView, usageView, flow, timeline,
                   storeVars, hookVars>>

\* the events of the conversations two aggregations are given: one of each
\* kind, and the two usage events whose keys collide
SharedEvents == {CostLlm, UsageA, UsageB, ToolUsage}

\* both aggregations are given the same conversation
InitConcurrent ==
    /\ IsSpanList(spans)
    /\ \A e \in Range(FlatEvents(spans)) : e \in SharedEvents
    /\ rendered = FALSE
    /\ parsed = NotRendered
    /\ costView = NotRendered
    /\ usageView = NotRendered
    /\ flow = <<>>
    /\ timeline = <<>>
    /\ calls = [c \in Calls |-> NewCall(spans)]
    /\ stored = 0
    /\ InitHook

ConcurrentNext ==
    \/ \E c \in Calls : parseSpan(c)
    \/ \E c \in Calls : parseReturn(c)
    \/ \E c \in Calls : callSpanTimeline(c)
    \/ \E c \in Calls : callConversationFlow(c)
    \/ \E c \in Calls : callCostSummary(c)
    \/ \E c \in Calls : callUsageSummary(c)

\* the steps of the two aggregations in any interleaving
ConcurrentSpec == InitConcurrent /\ [][ConcurrentNext]_vars

\* what a call that runs alone on the conversation ss returns
Alone(ss) ==
    [parsed |-> parseConversation(ss),
     timeline |-> SpanTimeline(ss),
     flow |-> ConversationFlow(ss),
     costView |-> CostSummary(parseConversation(ss).costs),
     usageView |-> UsageSummary(parseConversation(ss).usages)]

\* C12: in every interleaving of the two aggregations the spans array stays
\* as it was given, the lists a call decoded stay as parseConversation
\* returned them, and a call that is done has the results of a call that ran
\* alone on the conversation.
C12_PureAndStateless ==
    \A c \in DOMAIN calls :
        /\ spans = calls[c].given
        /\ calls[c].pc \notin {"parse"} =>
               calls[c].parsed = Alone(calls[c].given).parsed
        /\ calls[c].pc = "done" =>
               /\ calls[c].timeline = Alone(calls[c].given).timeline
               /\ calls[c].flow = Alone(calls[c].given).flow
               /\ calls[c].costView = Alone(calls[c].given).costView
               /\ calls[c].usageView = Alone(calls[c].given).usageView

\* both calls are done on two spans that the sort reorders, each span with
\* an event
C12_Witness ==
    /\ DOMAIN calls = Calls
    /\ \A c \in Calls : calls[c].pc = "done"
    /\ Len(spans) = 2
    /\ SortByStart(spans) # spans
    /\ spans[1].events = <<CostLlm>>
    /\ spans[2].events = <<UsageA>>
    /\ calls[1].flow = calls[2].flow
    /\ ~calls[1].costView.empty

----------------------------------------------------------------------------
(* The store behind GET /api/conversations.  Conversations are numbered in  *)
(* the order of their start_time, so the listing (start_time descending) of *)
(* a store of n conversations is n, n-1, ..., 1 and a new conversation      *)
(* sorts to its head.                                                       *)

PAGE_SIZE == 50

Listing(n) == [i \in 1..n |-> n + 1 - i]

Min(a, b) == IF a <= b THEN a ELSE b

\* ListConversations(limit, offset) on a store of n conversations
ListConversations(limit, offset, n) ==
    [conversations |-> SubSeq(Listing(n), offset + 1, Min(offset + limit, n)),
     total |-> n]

\* the sizes a store starts with: around every page boundary
StoreSizes ==
    {k * PAGE_SIZE + d : k \in 0..MaxPages, d \in {-1, 0, 1}} \ {-1}

----------------------------------------------------------------------------
(* The ingestion write path of the store (spec 4.1, 6): a batch of spans,   *)
(* each with its events, is validated item by item and written in one       *)
(* transaction.  A span row is keyed by (trace_id, span_id); an event row is *)
(* identified by its span, name, timestamp and content.                      *)

MaxBatchSpans == 2   \* spans in one ingestion batch
MaxIngests == 3      \* ingestion requests served

IngestEvent(name, time, amount) ==
    [name |-> name, time_unix_nano |-> time, attributes |-> amount]

IngestSpan(trace, id, name, start, end, events) ==
    [trace_id |-> trace, span_id |-> id, name |-> name,
     start_time_unix_nano |-> start, end_time_unix_nano |-> end, events |-> events]

\* the spans producers send: a root span, the same span exported again with
\* one more event, a child with an event of the same content, a span that
\* ends before it starts and a span without a name
IngestUniverse ==
    {IngestSpan("t1", "s1", JStr("conversation"), 1, 9,
                <<IngestEvent("yuu.cost", 2, 2)>>),
     IngestSpan("t1", "s1", JStr("conversation"), 1, 9,
                <<IngestEvent("yuu.cost", 2, 2), IngestEvent("yuu.cost", 3, 2)>>),
     IngestSpan("t1", "s2", JStr("llm_gen"), 2, 5,
                <<IngestEvent("yuu.cost", 2, 2), IngestEvent("yuu.cost", 2, 2)>>),
     IngestSpan("t1", "s3", JStr("llm_gen"), 5, 2,
                <<IngestEvent("yuu.cost", 2, 2)>>),
     IngestSpan("t1", "s4", Null, 2, 5, <<>>)}

Batches == UNION {[1..n -> IngestUniverse] : n \in 1..MaxBatchSpans}

\* per-item validation: a required field is missing, or end_time < start_time
Accepted(span) ==
    /\ ~IsNullish(span.name)
    /\ span.end_time_unix_nano >= span.start_time_unix_nano

SpanKey(span) == <<span.trace_id, span.span_id>>

\* the event rows a span brings, each with the key of its span
EventRows(span) ==
    [i \in 1..Len(span.events) |->
        [span |-> SpanKey(span), name |-> span.events[i].name,
         time_unix_nano |-> span.events[i].time_unix_nano,
         attributes |-> span.events[i].attributes]]

\* rows appended to the relation, whether or not they are stored already
AppendRows(relation, rows) == relation \o rows

\* rows appended to the relation in arrival order, those already stored left out
RECURSIVE AppendNewRows(_, _)
AppendNewRows(relation, rows) ==
    IF rows = <<>> THEN relation
    ELSE AppendNewRows(IF \E i \in 1..Len(relation) : relation[i] = Head(rows)
                       THEN relation
                       ELSE Append(relation, Head(rows)),
                       Tail(rows))

\* upsert by (trace_id, span_id): the stored row is replaced, else one is added
UpsertSpan(relation, span) ==
    LET row == [span EXCEPT !.events = <<>>]
    IN IF \E i \in 1..Len(relation) : SpanKey(relation[i]) = SpanKey(span)
       THEN [i \in 1..Len(relation) |->
                IF SpanKey(relation[i]) = SpanKey(span) THEN row ELSE relation[i]]
       ELSE Append(relation, row)

\* the store after the accepted spans of a batch are written, in batch order
RECURSIVE IngestBatch(_, _)
IngestBatch(d, batch) ==
    IF batch = <<>> THEN d
    ELSE IngestBatch(IF Accepted(Head(batch))
                     THEN [spans |-> UpsertSpan(d.spans, Head(batch)),
                           events |-> AppendNewRows(d.events, EventRows(Head(batch)))]
                     ELSE d,
                     Tail(batch))

\* POST of one batch: committed in one transaction
Ingest(batch) ==
    /\ ingested.count < MaxIngests
    /\ db' = IngestBatch(db, batch)
    /\ ingested' = [count |-> ingested.count + 1, last |-> batch]
    /\ UNCHANGED <<aggVars, hookVars>>

InitIngest ==
    /\ spans = <<>>
    /\ rendered = FALSE
    /\ parsed = NotRendered
    /\ costView = NotRendered
    /\ usageView = NotRendered
    /\ flow = <<>>
    /\ timeline = <<>>
    /\ calls = <<>>
    /\ stored = 0
    /\ InitHook

IngestNext == \E batch \in Batches : Ingest(batch)

\* producers post batches in any order, a batch any number of times
IngestSpec == InitIngest /\ [][IngestNext]_vars

\* C14: when the batch of a request is identical to the batch of the request
\* before it, the number of stored spans and the number of stored events are
\* the same after the request as before it.
C14_ReingestIdempotent ==
    [][(ingested.last # NoBatch /\ ingested'.last = ingested.last) =>
           /\ Len(db'.spans) = Len(db.spans)
           /\ Len(db'.events) = Len(db.events)]_vars

\* the third request brought an accepted span with two events and a rejected
\* span to a store that holds another span too; ingesting its batch again
\* leaves the store as it is
C14_Witness ==
    /\ ingested.count = 3
    /\ Len(ingested.last) = 2
    /\ Accepted(ingested.last[1])
    /\ ~Accepted(ingested.last[2])
    /\ Len(ingested.last[1].events) = 2
    /\ Len(db.spans) = 2
    /\ Len(db.events) = 3
    /\ db = IngestBatch(db, ingested.last)

----------------------------------------------------------------------------
(* hooks/useTraceData.ts                                                   *)

\* conversations.length < totalRef.current
hasMore == Len(conversations) < totalRef

PageRequest(offset, append) ==
    [kind |-> "page", offset |-> offset, append |-> append, id |-> 0,
     status |-> "sent", snap |-> 0]

ConversationRequest(id) ==
    [kind |-> "conversation", offset |-> 0, append |-> FALSE, id |-> id,
     status |-> "sent", snap |-> 0]

\* s without its i-th element
RemoveAt(s, i) == SubSeq(s, 1, i - 1) \o SubSeq(s, i + 1, Len(s))

\* an append that drops the page that arrived
KeepPrev(prev, page) == prev

\* an append that keeps only the page that arrived
ReplacePage(prev, page) == page

\* [...prev, ...page]
AppendPage(prev, page) == prev \o page

\* fetchPage(offset, append) up to its await: the fetch is issued
fetchPage(offset, append) ==
    /\ Len(requests) < MaxInFlight
    /\ loading' = TRUE
    /\ error' = NoError
    /\ requests' = Append(requests, PageRequest(offset, append))

\* useEffect(() => { fetchPage(0, false) }, [fetchPage])
Mount ==
    /\ ~mounted
    /\ mounted' = TRUE
    /\ fetchPage(0, FALSE)
    /\ UNCHANGED <<aggVars, storeVars, lastSelect,
                   stored, inserted, conversations, selectedConversation,
                   totalRef, loadedRef, loadingMore>>

\* a loadMore whose offset is the list length of its first render, 0
loadMoreStaleOffset ==
    /\ mounted
    /\ IF loadingMore
       THEN UNCHANGED vars
       ELSE /\ loadingMore' = TRUE
            /\ fetchPage(0, TRUE)
            /\ UNCHANGED <<aggVars, storeVars, lastSelect,
                           stored, inserted, conversations,
                           selectedConversation, totalRef, loadedRef, mounted>>

loadMore ==
    /\ mounted
    /\ IF loadingMore
       THEN UNCHANGED vars
       ELSE /\ loadingMore' = TRUE
            /\ fetchPage(loadedRef, TRUE)
            /\ UNCHANGED <<aggVars, storeVars, lastSelect,
                           stored, inserted, conversations,
                           selectedConversation, totalRef, loadedRef, mounted>>

\* a refresh that also drops the selection
refreshDeselecting ==
    /\ mounted
    /\ fetchPage(0, FALSE)
    /\ selectedConversation' = 0
    /\ UNCHANGED <<aggVars, storeVars, lastSelect,
                   stored, inserted, conversations,
                   totalRef, loadedRef, loadingMore, mounted>>

\* refresh: () => fetchPage(0, false)
refresh ==
    /\ mounted
    /\ fetchPage(0, FALSE)
    /\ UNCHANGED <<aggVars, storeVars, lastSelect,
                   stored, inserted, conversations, selectedConversation,
                   totalRef, loadedRef, loadingMore, mounted>>

\* selectConversation(id) up to its await
selectConversation(id) ==
    /\ mounted
    /\ Len(requests) < MaxInFlight
    /\ loading' = TRUE
    /\ error' = NoError
    /\ requests' = Append(requests, ConversationRequest(id))
    /\ lastSelect' = id
    /\ UNCHANGED <<aggVars, storeVars,
                   stored, inserted, conversations, selectedConversation,
                   totalRef, loadedRef, loadingMore, mounted>>

\* the server answers the i-th fetch from the store as it is now, or the
\* fetch fails: a 5xx, a 404 for an unknown conversation, a network error
Serve(i) ==
    /\ i \in 1..Len(requests)
    /\ requests[i].status = "sent"
    /\ \E outcome \in {"answer", "HTTP 500", "Failed to fetch"} :
          requests' =
              [requests EXCEPT
                 ![i].status =
                     IF outcome # "answer" THEN outcome
                     ELSE IF requests[i].kind = "conversation"
                             /\ requests[i].id \notin 1..stored
                          THEN "HTTP 404" ELSE "ok",
                 ![i].snap = stored]
    /\ UNCHANGED <<aggVars, storeVars, lastSelect,
                   stored, inserted, conversations, selectedConversation,
                   loading, error, totalRef, loadedRef, loadingMore, mounted>>

\* a fetchPage whose catch also empties the list
DeliverPageClearing(i) ==
    LET r == requests[i]
        data == ListConversations(PAGE_SIZE, r.offset, r.snap)
    IN /\ i \in 1..Len(requests)
       /\ r.kind = "page"
       /\ r.status # "sent"
       /\ requests' = RemoveAt(requests, i)
       /\ IF r.status = "ok"
          THEN /\ totalRef' = data.total
               /\ IF r.append
                  THEN /\ loadedRef' = loadedRef + Len(data.conversations)
                       /\ conversations' = AppendPage(conversations, data.conversations)
                  ELSE /\ loadedRef' = Len(data.conversations)
                       /\ conversations' = data.conversations
               /\ error' = error
          ELSE /\ error' = r.status
               /\ conversations' = <<>>
               /\ loadedRef' = 0
               /\ totalRef' = 0
       /\ loading' = FALSE
       /\ loadingMore' = FALSE
       /\ UNCHANGED <<aggVars, storeVars, lastSelect,
                      stored, inserted, selectedConversation, mounted>>

\* fetchPage after its await: try / catch / finally
DeliverPage(i) ==
    LET r == requests[i]
        data == ListConversations(PAGE_SIZE, r.offset, r.snap)
    IN /\ i \in 1..Len(requests)
       /\ r.kind = "page"
       /\ r.status # "sent"
       /\ requests' = RemoveAt(requests, i)
       /\ IF r.status = "ok"
          THEN /\ totalRef' = data.total
               /\ IF r.append
                  THEN /\ loadedRef' = loadedRef + Len(data.conversations)
                       /\ conversations' = AppendPage(conversations, data.conversations)
                  ELSE /\ loadedRef' = Len(data.conversations)
                       /\ conversations' = data.conversations
               /\ error' = error
          ELSE /\ error' = r.status
               /\ UNCHANGED <<totalRef, loadedRef, conversations>>
       /\ loading' = FALSE
       /\ loadingMore' = FALSE
       /\ UNCHANGED <<aggVars, storeVars, lastSelect,
                      stored, inserted, selectedConversation, mounted>>

\* a selectConversation whose catch also clears the selection
DeliverConversationClearing(i) ==
    LET r == requests[i]
    IN /\ i \in 1..Len(requests)
       /\ r.kind = "conversation"
       /\ r.status # "sent"
       /\ requests' = RemoveAt(requests, i)
       /\ IF r.status = "ok"
          THEN /\ selectedConversation' = r.id
               /\ error' = error
          ELSE /\ error' = r.status
               /\ selectedConversation' = 0
       /\ loading' = FALSE
       /\ UNCHANGED <<aggVars, storeVars, lastSelect,
                      stored, inserted, conversations, totalRef, loadedRef,
                      loadingMore, mounted>>

\* selectConversation after its await: try / catch / finally
DeliverConversation(i) ==
    LET r == requests[i]
    IN /\ i \in 1..Len(requests)
       /\ r.kind = "conversation"
       /\ r.status # "sent"
       /\ requests' = RemoveAt(requests, i)
       /\ IF r.status = "ok"
          THEN /\ selectedConversation' = r.id
               /\ error' = error
          ELSE /\ error' = r.status
               /\ selectedConversation' = selectedConversation
       /\ loading' = FALSE
       /\ UNCHANGED <<aggVars, storeVars, lastSelect,
                      stored, inserted, conversations, totalRef, loadedRef,
                      loadingMore, mounted>>

\* a producer's new conversation is ingested; it sorts to the head
Insert ==
    /\ inserted < MaxInserts
    /\ stored' = stored + 1
    /\ inserted' = inserted + 1
    /\ UNCHANGED <<aggVars, storeVars, lastSelect,
                   conversations, selectedConversation, loading, error,
                   totalRef, loadedRef, loadingMore, mounted, requests>>

\* the page is opened on a store of some size; no conversation is rendered
InitPage ==
    /\ spans = <<>>
    /\ rendered = FALSE
    /\ parsed = NotRendered
    /\ costView = NotRendered
    /\ usageView = NotRendered
    /\ flow = <<>>
    /\ timeline = <<>>
    /\ calls = <<>>
    /\ stored \in StoreSizes
    /\ InitHook

\* ConversationList calls onLoadMore when its sentinel shows and hasMore holds;
\* here it does so only when no fetch is in flight
LoadMoreWhenIdle == requests = <<>> /\ hasMore /\ loadMore

PagingNext ==
    \/ Mount
    \/ LoadMoreWhenIdle
    \/ \E i \in 1..MaxInFlight : Serve(i)
    \/ \E i \in 1..MaxInFlight : DeliverPage(i)
    \/ Insert

\* the listing is paged through one fetch at a time while producers ingest
PagingSpec == InitPage /\ [][PagingNext]_vars

HookNext ==
    \/ Mount
    \/ loadMore
    \/ refresh
    \/ \E id \in {1, stored, stored + 1} : selectConversation(id)
    \/ \E i \in 1..MaxInFlight : Serve(i)
    \/ \E i \in 1..MaxInFlight : DeliverPage(i)
    \/ \E i \in 1..MaxInFlight : DeliverConversation(i)

\* every call of the hook, in any interleaving with the responses, on a store
\* that does not change
HookSpec == InitPage /\ [][HookNext]_vars

\* the server answers the i-th fetch successfully
Answer(i) ==
    /\ Serve(i)
    /\ requests'[i].status = "ok"

SelectNext ==
    \/ Mount
    \/ \E id \in {1, stored} \cap (1..stored) : selectConversation(id)
    \/ \E i \in 1..MaxInFlight : Answer(i)
    \/ \E i \in 1..MaxInFlight : DeliverPage(i)
    \/ \E i \in 1..MaxInFlight : DeliverConversation(i)

\* conversations of the store are selected, calls overlap, and every fetch is
\* answered successfully, the answers arriving in any order
SelectSpec == InitPage /\ [][SelectNext]_vars

\* every size a store of up to MaxPages pages and one more conversation has
AllStoreSizes == 0..(MaxPages * PAGE_SIZE + 1)

InitFixedStore ==
    /\ spans = <<>>
    /\ rendered = FALSE
    /\ parsed = NotRendered
    /\ costView = NotRendered
    /\ usageView = NotRendered
    /\ flow = <<>>
    /\ timeline = <<>>
    /\ calls = <<>>
    /\ stored \in AllStoreSizes
    /\ InitHook

\* loadMore is called whenever hasMore holds
LoadMoreWhenHasMore == hasMore /\ loadMore

LiveNext ==
    \/ Mount
    \/ LoadMoreWhenHasMore
    \/ \E i \in 1..MaxInFlight : Answer(i)
    \/ \E i \in 1..MaxInFlight : DeliverPage(i)

\* the store is fixed; the mount effect runs, loadMore keeps being called
\* while hasMore holds, and every fetch is answered successfully and its
\* response consumed
LiveSpec ==
    /\ InitFixedStore
    /\ [][LiveNext]_vars
    /\ WF_vars(Mount)
    /\ WF_vars(LoadMoreWhenHasMore)
    /\ \A i \in 1..MaxInFlight : WF_vars(Answer(i))
    /\ \A i \in 1..MaxInFlight : WF_vars(DeliverPage(i))

\* pages/TracePage.tsx takes conversations, selectedConversation, loading,
\* error and selectConversation from useTraceData and gives ConversationList
\* conversations, selectedId and onSelect.  ConversationList gets no
\* onLoadMore, so its sentinel effect returns before it observes anything;
\* refresh is bound to nothing.  What the page offers is a click on a listed
\* conversation: onClick={() => onSelect?.(c.id)}.
clickConversation ==
    /\ conversations # <<>>
    /\ \E id \in {conversations[1], conversations[Len(conversations)]} :
          selectConversation(id)

TracePageNext ==
    \/ Mount
    \/ clickConversation
    \/ \E i \in 1..MaxInFlight : Answer(i)
    \/ \E i \in 1..MaxInFlight : DeliverPage(i)
    \/ \E i \in 1..MaxInFlight : DeliverConversation(i)

\* the standalone page on a store that does not change, every fetch answered
\* successfully and its response consumed
TracePageSpec ==
    /\ InitPage
    /\ [][TracePageNext]_vars
    /\ WF_vars(Mount)
    /\ \A i \in 1..MaxInFlight : WF_vars(Answer(i))
    /\ \A i \in 1..MaxInFlight : WF_vars(DeliverPage(i))
    /\ \A i \in 1..MaxInFlight : WF_vars(DeliverConversation(i))

----------------------------------------------------------------------------
(* Properties of the paging.                                               *)

\* C7: on a store that did not change, once the first page and then one
\* loadMore after each response have been fetched, every fetch has been
\* answered, the last one successfully, and hasMore is false, the
\* conversations list is the whole listing, in listing order.
C7_PagingCoversStore ==
    (mounted /\ inserted = 0 /\ requests = <<>> /\ error = NoError /\ ~hasMore)
        => conversations = Listing(stored)

\* a store of two full pages and one more conversation, paged to its end
C7_Witness ==
    /\ mounted
    /\ inserted = 0
    /\ requests = <<>>
    /\ error = NoError
    /\ ~hasMore
    /\ stored = 2 * PAGE_SIZE + 1
    /\ Len(conversations) = 2 * PAGE_SIZE + 1

\* C8: with conversations ingested between the page fetches, the list never
\* holds a conversation twice and never leaves out a conversation older than
\* one it holds: each entry is the next older conversation after the entry
\* before it.
C8_NoRepeatNoSkip ==
    \A i \in 1..(Len(conversations) - 1) : conversations[i + 1] = conversations[i] - 1

----------------------------------------------------------------------------
(* Properties of the hook under every interleaving of calls and responses. *)

\* the step in which the response of the i-th fetch is consumed
Consumes(i) ==
    /\ i \in 1..Len(requests)
    /\ requests[i].status # "sent"
    /\ requests' = RemoveAt(requests, i)

\* the step in which selectConversation(id) is called
CallsSelect(id) == requests' = Append(requests, ConversationRequest(id))

\* C13: the call selectConversation(id) changes neither selectedConversation
\* nor conversations, and when the server's answer to it is a 404 the step
\* that consumes the answer sets error to 'HTTP 404' and leaves
\* selectedConversation and conversations as they were.
C13_NotFoundKeepsSelection ==
    [][/\ \A id \in {1, stored, stored + 1} :
              CallsSelect(id) =>
                  /\ selectedConversation' = selectedConversation
                  /\ conversations' = conversations
       /\ \A i \in 1..Len(requests) :
              (/\ requests[i].kind = "conversation"
               /\ requests[i].status = "HTTP 404"
               /\ Consumes(i)) =>
                  /\ error' = "HTTP 404"
                  /\ selectedConversation' = selectedConversation
                  /\ conversations' = conversations]_vars

\* a conversation was selected and a page loaded; a later selectConversation
\* of an id the store does not hold was answered 404
C13_Witness ==
    /\ error = "HTTP 404"
    /\ requests = <<>>
    /\ selectedConversation # 0
    /\ conversations # <<>>
    /\ ~loading

\* the fetches in flight that loadMore issued: only loadMore fetches with append
LoadMoreInFlight ==
    {i \in 1..Len(requests) : requests[i].kind = "page" /\ requests[i].append}

\* C15: at most one request issued by loadMore is in flight at any time,
\* whatever refresh and the initial page fetch do meanwhile: a loadMore call
\* made while one is in flight issues nothing.
C15_OneLoadMoreInFlight == Cardinality(LoadMoreInFlight) <= 1

\* the selectConversation fetches whose response has not been consumed
SelectInFlight == {i \in 1..Len(requests) : requests[i].kind = "conversation"}

\* C16: with every selectConversation call answered successfully, once no
\* response to one is outstanding selectedConversation is the conversation
\* the latest call asked for, whatever the order the responses arrived in.
C16_LatestSelectWins ==
    (lastSelect # 0 /\ SelectInFlight = {}) => selectedConversation = lastSelect

\* C17: loading is true exactly when a fetch is in flight: true while the
\* response of at least one page fetch or selectConversation fetch is
\* outstanding, false when none is.
C17_LoadingWhileInFlight == loading <=> (requests # <<>>)

\* C18: whatever page fetches have completed, successfully or not and in
\* whatever interleaving, loadedRef.current is the length of the
\* conversations list.
C18_LoadedIsListLength == loadedRef = Len(conversations)

\* three pages were appended and a later fetch failed; nothing is in flight
C18_Witness ==
    /\ requests = <<>>
    /\ error = "HTTP 500"
    /\ Len(conversations) = 2 * PAGE_SIZE + 1
    /\ loadedRef = 2 * PAGE_SIZE + 1

\* C19: on a fixed store, with loadMore called whenever hasMore holds and
\* every fetch answered successfully, hasMore becomes false and stays false.
C19_HasMoreEventuallyFalse == <>[](~hasMore)

\* a store of two pages and one conversation has been paged to its end
C19_Witness ==
    /\ mounted
    /\ requests = <<>>
    /\ ~hasMore
    /\ ~loadingMore
    /\ stored = 2 * PAGE_SIZE + 1
    /\ totalRef = stored
    /\ Len(conversations) = stored

\* the failure messages: `HTTP ${res.status}` of a 5xx, the fetch's own error
PageFailures == {"HTTP 500", "Failed to fetch"}

\* the step in which fetchPage(offset, append) is called
CallsFetchPage ==
    \E offset \in {0, loadedRef} : \E append \in BOOLEAN :
        requests' = Append(requests, PageRequest(offset, append))

\* C20: a page fetch that fails leaves conversations, loadedRef.current and
\* totalRef.current alone, both when it is issued and when its failure is
\* consumed, and the step that consumes the failure sets error to its message.
C20_FailedFetchKeepsList ==
    [][/\ CallsFetchPage =>
              /\ conversations' = conversations
              /\ loadedRef' = loadedRef
              /\ totalRef' = totalRef
       /\ \A i \in 1..Len(requests) :
              (/\ requests[i].kind = "page"
               /\ requests[i].status \in PageFailures
               /\ Consumes(i)) =>
                  /\ error' = requests[i].status
                  /\ conversations' = conversations
                  /\ loadedRef' = loadedRef
                  /\ totalRef' = totalRef]_vars

\* the first page of a larger store is loaded and a later page fetch failed
\* on the network
C20_Witness ==
    /\ requests = <<>>
    /\ error = "Failed to fetch"
    /\ stored > PAGE_SIZE
    /\ Len(conversations) = PAGE_SIZE
    /\ loadedRef = PAGE_SIZE
    /\ totalRef = stored
    /\ lastSelect = 0

\* C21: a step of a page fetch (the call of the initial fetch, of loadMore or
\* of refresh, and the step that consumes its response) leaves
\* selectedConversation alone; a step of selectConversation (the call, and
\* the step that consumes its response) leaves conversations,
\* loadedRef.current and totalRef.current alone.
C21_FetchesKeepToTheirState ==
    [][/\ CallsFetchPage => selectedConversation' = selectedConversation
       /\ \A i \in 1..Len(requests) :
              (requests[i].kind = "page" /\ Consumes(i)) =>
                  selectedConversation' = selectedConversation
       /\ \A id \in {1, stored, stored + 1} :
              CallsSelect(id) =>
                  /\ conversations' = conversations
                  /\ loadedRef' = loadedRef
                  /\ totalRef' = totalRef
       /\ \A i \in 1..Len(requests) :
              (requests[i].kind = "conversation" /\ Consumes(i)) =>
                  /\ conversations' = conversations
                  /\ loadedRef' = loadedRef
                  /\ totalRef' = totalRef]_vars

\* the oldest conversation is selected and two pages are loaded, with every
\* response consumed
C21_Witness ==
    /\ requests = <<>>
    /\ selectedConversation = 1
    /\ lastSelect = 1
    /\ Len(conversations) = 2 * PAGE_SIZE
    /\ loadedRef = 2 * PAGE_SIZE
    /\ totalRef = stored

\* every stored conversation is in the displayed list
ShowsAll == \A c \in 1..stored : \E i \in 1..Len(conversations) : conversations[i] = c

\* C22: with the actions TracePage offers, the conversation list comes to
\* show every stored conversation, whatever the number of stored
\* conversations.
C22_ListShowsEveryConversation == <>ShowsAll

\* no sequence of the actions TracePage offers loads more than the first page
TracePageShowsOnePage == Len(conversations) <= PAGE_SIZE

====
